---------------------------- MODULE Spec2Model ----------------------------
(***************************************************************************)
(* AV_Benachrichtigungssystem: the cooperative event queue (async_queue.py) *)
(* and the message store (state_manager.py) as state machines.             *)
(*                                                                         *)
(* SpecQueue  : AsyncQueue construction, put and get called by several     *)
(*              cooperative tasks; one step is the code a task runs        *)
(*              between two suspension points of the uasyncio scheduler.   *)
(* SpecStore  : StateManager (state_manager.py): construction, the event   *)
(*              loop, the handlers and the debounced file writer task.     *)
(* SpecOld    : main.py with the module it imports as state_manager        *)
(*              (state_manager_old.py) and DisplayManager.set_text of      *)
(*              display_manager2.py.                                       *)
(* SpecDisplay: DisplayManager (display_manager.py): the event handler on  *)
(*              core 0 and the scroll thread on core 1, sharing the pair   *)
(*              (text, power_on) under one lock.                           *)
(***************************************************************************)
EXTENDS Integers, Sequences, FiniteSets, TLC

VARIABLES
    \* ---- AsyncQueue (async_queue.py) ----
    arg,          \* the maxsize argument handed to AsyncQueue(...)
    qstate,       \* "new" before __init__ ran, "ok" after it, "error" when it raised
    maxsize,      \* self._maxsize
    deque_maxlen, \* maxlen of the deque behind self._queue
    queue,        \* self._queue, oldest item first
    put_event,    \* self._put_event.state
    get_event,    \* self._get_event.state
    pc,           \* per task: "idle", "waiting" (on its event) or "ready" (woken)
    item,         \* per producer: the item of its current put call
    nextItem,     \* the next fresh item
    appended,     \* history: items in the order completed puts appended them
    returned,     \* history: items in the order completed gets returned them
    blocked,      \* history, per producer: its current/last put was suspended
    \* ---- StateManager (state_manager.py) ----
    rpc,          \* "new" before __init__, "constructed", "running" once run() started,
                  \* "raised" when __init__ raised
    file,         \* messages.txt: [kind, data]
    messages,     \* the module-level list _messages
    messages_dirty, \* self._messages_dirty.state
    wpc,          \* _file_writer_task: "none", "wait" (on the event) or "sleep" (debounce)
    event_queue,  \* self.event_queue: the events put and not yet taken by run()
    nCalls,       \* calls made so far by the collaborators
    nWrites,      \* history: calls of _write_messages_to_file since the writer
                  \* last was woken from its wait for the dirty signal
    late,         \* history: a mutation arrived after the first of these writes
    \* ---- main.py with state_manager_old.py and display_manager2.py ----
    old_messages,  \* state_manager_old._messages
    old_file,      \* messages.txt as _save_to_file writes it, one entry per line
    ip,            \* main(): connect_wifi() returned an address
    display_manager, \* main.display_manager: "None" or "ok"
    main_display_task_running, \* main._main_display_task_running
    dtask,         \* display_message_from_state_task instances: [pc, last_message]
    ipc,           \* initial_display_task: "none", "created", "sleeping", "done"
    current_text,  \* DisplayManager._current_text
    scroll_task,   \* DisplayManager._scroll_task: "none", "created", "scrolling",
                   \* "done" or "cancelled"
    nScroll,       \* history: scroll tasks created and neither returned nor
                   \* cancelled
    powered,       \* the panel is powered on
    shown,         \* the text rendered on the panel
    nOldCalls,     \* calls made so far by the web server and the buttons
    \* ---- DisplayManager (display_manager.py): run() on core 0, the scroll
    \*      thread on core 1 ----
    dpc,           \* run()/handle_event: "idle" (in queue.get), "lock" (at the
                   \* with statement of _update_text_and_power), "locked" (in it),
                   \* "locked_power" (in it, the text written),
                   \* "check" (at `if not self._core1_running`), "raised"
    event,         \* the event handle_event is working on
    upd,           \* the arguments of the running _update_text_and_power call
    dm_current_text, \* self._current_text of this DisplayManager
    core1_text,    \* self._core1_text
    core1_power_on, \* self._core1_power_on
    core1_running, \* self._core1_running
    core1_lock,    \* holder of self._core1_lock: "free", "core0" or "core1"
    tpc,           \* _core1_scroll_thread: "none", "starting", "loop" (at the
                   \* with statement of line 205), "read" (in it), "flush" (at the
                   \* with statement of line 273), "show" (in it), "dead"
    new_text,      \* thread local new_text
    is_power_on,   \* thread local is_power_on
    r_text,        \* thread local _text
    x_start,       \* thread local x_start
    x_end,         \* thread local x_end
    y_start,       \* thread local y_start
    current_x,     \* thread local current_x
    panel_on,      \* the panel is powered on
    panel_text,    \* the text in the panel's memory after the last show()
    panel_x,       \* the x position that text was drawn at
    panel_y,       \* the y position that text was drawn at
    nStarts,       \* history: calls of _thread.start_new_thread
    nFrames,       \* history: frames of scrolling text rendered
    nEvents,       \* history: events taken from the display queue
    fresh,         \* history: the thread has read the pair since its last update
    last_pair      \* history: the pair the last completed call of
                   \* _update_text_and_power wrote (at first the constructor's)

queueVars == << arg, qstate, maxsize, deque_maxlen, queue, put_event, get_event,
                pc, item, nextItem, appended, returned, blocked >>

storeVars == << rpc, file, messages, messages_dirty, wpc, event_queue,
                nCalls, nWrites, late >>

oldVars == << old_messages, old_file, ip, display_manager,
              main_display_task_running, dtask, ipc, current_text, scroll_task, nScroll,
              powered, shown, nOldCalls >>

displayVars == << dpc, event, upd, dm_current_text, core1_text, core1_power_on,
                  core1_running, core1_lock, tpc, new_text, is_power_on, r_text,
                  x_start, x_end, y_start, current_x, panel_on, panel_text, panel_x, panel_y,
                  nStarts, nFrames, nEvents, fresh, last_pair >>

vars == << queueVars, storeVars, oldVars, displayVars >>

---------------------------------------------------------------------------
\* Bounds of the model.

\* Largest capacity handed to the constructor.
MaxCap == 2
\* Items put into a queue of capacity > 0.
MaxItems == 4
\* Items put into a queue of capacity 0 beyond the internal deque's maxlen.
MaxOverflow == 1

\* async_queue.py:37, the deque maxlen chosen for maxsize = 0.
DefaultDequeMaxlen == 20

Producers == {"p1", "p2"}
Consumers == {"c1", "c2"}
Tasks == Producers \cup Consumers

\* Arguments tried for maxsize: integers, and one value that is no int.
NotAnInt == [isint |-> FALSE, val |-> 0]
Args == {[isint |-> TRUE, val |-> v] : v \in (0 - 2)..MaxCap} \cup {NotAnInt}

---------------------------------------------------------------------------
\* AsyncQueue.__init__

\* async_queue.py:27  `not isinstance(maxsize, int) or maxsize < 0`
InvalidMaxsize_NoSignCheck(a) == ~a.isint

InvalidMaxsize(a) == ~a.isint \/ a.val < 0

\* async_queue.py:34-37  the maxlen of the internal deque
DequeInternalMaxlen(m) == IF m > 0 THEN m ELSE DefaultDequeMaxlen

\* async_queue.py:30-40  the fields __init__ sets for a valid maxsize
AsyncQueue_init_OffByOne(m) ==
    [maxsize |-> m + 1, deque_maxlen |-> DequeInternalMaxlen(m + 1)]

AsyncQueue_init(m) ==
    [maxsize |-> m, deque_maxlen |-> DequeInternalMaxlen(m)]

\* collections.deque((), maxlen).append: MicroPython's deque, built without the
\* overflow-check flag, discards the item at the opposite end when it is full.
DequeAppend(q, maxlen, x) ==
    IF Len(q) >= maxlen THEN Append(Tail(q), x) ELSE Append(q, x)

\* async_queue.py:53 / :95  the loop condition of put, also full()
full_StrictlyAbove(q, m) == m > 0 /\ Len(q) > m

full(q, m) == m > 0 /\ Len(q) >= m

\* An Event.set() that only sets the flag and schedules no waiting task
Wake_FlagOnly(p, waiters) == p

\* uasyncio.Event.set(): every task waiting on the event is scheduled.
Wake(p, waiters) ==
    [t \in Tasks |-> IF t \in waiters /\ p[t] = "waiting" THEN "ready" ELSE p[t]]

---------------------------------------------------------------------------
\* Actions of SpecQueue

Construct ==
    /\ qstate = "new"
    /\ IF InvalidMaxsize(arg)
       THEN /\ qstate' = "error"                      \* raise ValueError
            /\ UNCHANGED << maxsize, deque_maxlen >>
       ELSE /\ qstate' = "ok"
            /\ maxsize' = AsyncQueue_init(arg.val).maxsize
            /\ deque_maxlen' = AsyncQueue_init(arg.val).deque_maxlen
    /\ UNCHANGED << arg, queue, put_event, get_event, pc, item, nextItem,
                    appended, returned, blocked >>
    /\ UNCHANGED << storeVars, oldVars, displayVars >>

\* async_queue.py:53-58, from the (re)entry of the while loop to the next
\* suspension or to the return of put.
put_body(p, x, wasBlocked) ==
    IF full(queue, maxsize)
    THEN /\ put_event' = FALSE                        \* self._put_event.clear()
         /\ pc' = [pc EXCEPT ![p] = "waiting"]        \* await self._put_event.wait()
         /\ blocked' = [blocked EXCEPT ![p] = TRUE]
         /\ UNCHANGED << queue, get_event, appended >>
    ELSE /\ queue' = DequeAppend(queue, deque_maxlen, x)
         /\ appended' = Append(appended, x)
         /\ get_event' = TRUE                         \* self._get_event.set()
         /\ pc' = [Wake(pc, Consumers) EXCEPT ![p] = "idle"]
         /\ blocked' = [blocked EXCEPT ![p] = wasBlocked]
         /\ UNCHANGED put_event

ItemLimit == IF maxsize = 0 THEN DefaultDequeMaxlen + MaxOverflow ELSE MaxItems

put_call(p) ==
    /\ qstate = "ok"
    /\ pc[p] = "idle"
    /\ nextItem <= ItemLimit
    /\ item' = [item EXCEPT ![p] = nextItem]
    /\ nextItem' = nextItem + 1
    /\ put_body(p, nextItem, FALSE)
    /\ UNCHANGED << arg, qstate, maxsize, deque_maxlen, returned >>
    /\ UNCHANGED << storeVars, oldVars, displayVars >>

put_resume(p) ==
    /\ pc[p] = "ready"
    /\ put_body(p, item[p], TRUE)
    /\ UNCHANGED << arg, qstate, maxsize, deque_maxlen, item, nextItem, returned >>
    /\ UNCHANGED << storeVars, oldVars, displayVars >>

\* async_queue.py:67-73
get_body(c) ==
    IF queue = << >>
    THEN /\ get_event' = FALSE                        \* self._get_event.clear()
         /\ pc' = [pc EXCEPT ![c] = "waiting"]        \* await self._get_event.wait()
         /\ UNCHANGED << queue, put_event, returned >>
    ELSE /\ queue' = Tail(queue)                      \* self._queue.popleft()
         /\ returned' = Append(returned, Head(queue))
         /\ put_event' = TRUE                         \* self._put_event.set()
         /\ pc' = [Wake(pc, Producers) EXCEPT ![c] = "idle"]
         /\ UNCHANGED get_event

get_call(c) ==
    /\ qstate = "ok"
    /\ pc[c] = "idle"
    /\ get_body(c)
    /\ UNCHANGED << arg, qstate, maxsize, deque_maxlen, item, nextItem,
                    appended, blocked >>
    /\ UNCHANGED << storeVars, oldVars, displayVars >>

get_resume(c) ==
    /\ pc[c] = "ready"
    /\ get_body(c)
    /\ UNCHANGED << arg, qstate, maxsize, deque_maxlen, item, nextItem,
                    appended, blocked >>
    /\ UNCHANGED << storeVars, oldVars, displayVars >>

\* The queue component before any call: what SpecStore holds fixed.
QueueUnused ==
    /\ arg = NotAnInt
    /\ qstate = "new"
    /\ maxsize = 0
    /\ deque_maxlen = 0
    /\ queue = << >>
    /\ put_event = FALSE
    /\ get_event = FALSE
    /\ pc = [t \in Tasks |-> "idle"]
    /\ item = [p \in Producers |-> 0]
    /\ nextItem = 1
    /\ appended = << >>
    /\ returned = << >>
    /\ blocked = [p \in Producers |-> FALSE]

\* The store component before any call: what SpecQueue holds fixed.
StoreUnused ==
    /\ rpc = "new"
    /\ file = [kind |-> "missing", data |-> << >>]
    /\ messages = << >>
    /\ messages_dirty = FALSE
    /\ wpc = "none"
    /\ event_queue = << >>
    /\ nCalls = 0
    /\ nWrites = 0
    /\ late = FALSE

\* main.py and its modules before main() ran: what the other specifications
\* hold fixed.
OldUnused ==
    /\ old_messages = << >>
    /\ old_file = << >>
    /\ ip = FALSE
    /\ display_manager = "None"
    /\ main_display_task_running = FALSE
    /\ dtask = << >>
    /\ ipc = "none"
    /\ current_text = ""
    /\ scroll_task = "none"
    /\ nScroll = 0
    /\ powered = FALSE
    /\ shown = ""
    /\ nOldCalls = 0

\* display_manager.py:32-62: the DisplayManager after its constructor: no
\* thread yet, the panel cleared and powered off. What the other
\* specifications hold fixed.
DisplayManager_init ==
    /\ dpc = "idle"
    /\ event = [type |-> "NONE", value |-> ""]
    /\ upd = [new_text |-> "", power_on |-> FALSE]
    /\ dm_current_text = ""
    /\ core1_text = ""
    /\ core1_power_on = FALSE
    /\ core1_running = FALSE
    /\ core1_lock = "free"
    /\ tpc = "none"
    /\ new_text = ""
    /\ is_power_on = FALSE
    /\ r_text = ""
    /\ x_start = 0
    /\ x_end = 0
    /\ y_start = 0
    /\ current_x = 0
    /\ panel_on = FALSE
    /\ panel_text = ""
    /\ panel_x = 0
    /\ panel_y = 0
    /\ nStarts = 0
    /\ nFrames = 0
    /\ nEvents = 0
    /\ fresh = TRUE
    /\ last_pair = [text |-> "", power_on |-> FALSE]

InitQueue ==
    /\ StoreUnused
    /\ OldUnused
    /\ DisplayManager_init
    /\ arg \in Args
    /\ qstate = "new"
    /\ maxsize = 0
    /\ deque_maxlen = 0
    /\ queue = << >>
    /\ put_event = FALSE
    /\ get_event = FALSE
    /\ pc = [t \in Tasks |-> "idle"]
    /\ item = [p \in Producers |-> 0]
    /\ nextItem = 1
    /\ appended = << >>
    /\ returned = << >>
    /\ blocked = [p \in Producers |-> FALSE]

NextQueue ==
    \/ Construct
    \/ \E p \in Producers : put_call(p)
    \/ \E p \in Producers : put_resume(p)
    \/ \E c \in Consumers : get_call(c)
    \/ \E c \in Consumers : get_resume(c)

SpecQueue == InitQueue /\ [][NextQueue]_vars

\* The queue under uasyncio's scheduler, which runs every task it has
\* scheduled: a task woken by Event.set() resumes after its `await wait()`.
SpecQueueFair ==
    /\ InitQueue
    /\ [][NextQueue]_vars
    /\ \A p \in Producers : WF_vars(put_resume(p))
    /\ \A c \in Consumers : WF_vars(get_resume(c))

---------------------------------------------------------------------------
\* Properties of AsyncQueue, checked under SpecQueue.

IsPrefix(s, t) == Len(s) <= Len(t) /\ s = SubSeq(t, 1, Len(s))

\* C1: a queue constructed with capacity C > 0 never holds more than C items,
\* whatever the interleaving of the producers' puts and the consumers' gets.
C1_AtMostCapacity ==
    (qstate = "ok" /\ arg.val > 0) => Len(queue) <= arg.val

\* A queue of capacity 2 is full and a further put is suspended on it.
C1_Witness ==
    /\ qstate = "ok" /\ arg.val = 2 /\ Len(queue) = 2
    /\ \E p \in Producers : pc[p] = "waiting"

\* C2: the items returned by the completed gets are, in order, the items
\* appended by the completed puts (the returned sequence is always the
\* beginning of the appended sequence).
C2_FifoOrder == qstate = "ok" => IsPrefix(returned, appended)

\* C3: on a queue of capacity C > 0 that holds C items no put completes: a step
\* taken while the queue is full appends nothing, and the item of a put that
\* has not returned is in no completed append.
C3_FullPutWaits ==
    /\ [](\A p \in Producers :
            pc[p] # "idle" =>
               \A i \in 1..Len(appended) : appended[i] # item[p])
    /\ [][(qstate = "ok" /\ arg.val > 0 /\ Len(queue) >= arg.val)
            => appended' = appended]_vars

\* The scenario with capacity 2: the third put was suspended, the first get
\* returned the first item, and the third put has then completed.
C3_Witness ==
    /\ qstate = "ok" /\ arg.val = 2
    /\ appended = << 1, 2, 3 >> /\ returned = << 1 >> /\ queue = << 2, 3 >>
    /\ \E p \in Producers : blocked[p] /\ pc[p] = "idle" /\ item[p] = 3

\* C4: for every capacity >= 0 no completed put loses an item: the appended
\* items are exactly the returned ones followed by the ones still queued.
C4_NoItemDropped == qstate = "ok" => appended = returned \o queue

\* C5: the constructor raises exactly for an argument that is no int or is
\* negative, and then there is no queue to operate on; every int >= 0 yields
\* a queue of that capacity.
C5_NegativeRejected ==
    qstate # "new" =>
       /\ qstate = "error" <=> (~arg.isint \/ arg.val < 0)
       /\ qstate = "error" =>
             /\ queue = << >> /\ appended = << >> /\ returned = << >>
             /\ \A t \in Tasks : pc[t] = "idle"
       /\ qstate = "ok" => maxsize = arg.val

\* The constructor has rejected a negative int.
C5_Witness == qstate = "error" /\ arg.isint /\ arg.val < 0


---------------------------------------------------------------------------
\* StateManager (state_manager.py)

\* Bounds of the store model.
\* Calls the collaborators make in one run: events put into the event queue
\* and update_state calls.
MaxCalls == 3
\* Events the queue holds before a producer's put is suspended.
EventQueueCap == 2

\* state_manager.py:8
max_messages == 5

\* Readings of the RTC, as _current_timestamp formats them.
Timestamps == {"02.11.2026 10:00"}

\* The events the collaborators put (hardware.py:48-52 for the buttons); an
\* event without a "value" key carries the default run() substitutes.
Events ==
    { [type |-> "PICKUP", value |-> "Alice"],
      [type |-> "PICKUP", value |-> "Bob"],
      [type |-> "EMERGENCY_CB", value |-> "UNKNOWN_VALUE"],
      [type |-> "EMERGENCY_EVENT", value |-> "UNKNOWN_VALUE"],
      [type |-> "BUTTON_PRESSED", value |-> "ACCEPT"],
      [type |-> "BUTTON_PRESSED", value |-> "REJECT"],
      [type |-> "BUTTON_PRESSED", value |-> "UNKNOWN"],
      [type |-> "BUTTON_RELEASED", value |-> "ACCEPT"] }

\* state_manager.py:179-184
pickup_entry_StateAccepted(pickup_value, ts) ==
    [type |-> "PICKUP", value |-> pickup_value, state |-> "accepted",
     timestamp |-> ts]

pickup_entry(pickup_value, ts) ==
    [type |-> "PICKUP", value |-> pickup_value, state |-> "wait",
     timestamp |-> ts]

\* state_manager.py:193-198
emergency_cb_entry(ts) ==
    [type |-> "EMERGENCY_CB", value |-> "Staffler bitte zum Kids-Check-In kommen",
     state |-> "wait", timestamp |-> ts]

\* state_manager.py:207-212
emergency_event_entry(ts) ==
    [type |-> "EMERGENCY_EVENT",
     value |-> "Sanitaeterteam bitte zum Kids-Check-In kommen",
     state |-> "wait", timestamp |-> ts]

\* ujson.dumps of the log: a JSON array of objects, each object its
\* key/value pairs.
ujson_dumps(log) ==
    [i \in 1..Len(log) |->
        << << "type", log[i].type >>, << "value", log[i].value >>,
           << "state", log[i].state >>, << "timestamp", log[i].timestamp >> >>]

JsonGet(obj, key) ==
    LET i == CHOOSE k \in 1..Len(obj) : obj[k][1] = key IN obj[i][2]

\* ujson.loads returning the array's elements in reverse order
ujson_loads_Reversed(data) ==
    [i \in 1..Len(data) |->
        [type |-> JsonGet(data[Len(data) + 1 - i], "type"),
         value |-> JsonGet(data[Len(data) + 1 - i], "value"),
         state |-> JsonGet(data[Len(data) + 1 - i], "state"),
         timestamp |-> JsonGet(data[Len(data) + 1 - i], "timestamp")]]

\* ujson.loads of such an array: a list of dicts.
ujson_loads(data) ==
    [i \in 1..Len(data) |->
        [type |-> JsonGet(data[i], "type"), value |-> JsonGet(data[i], "value"),
         state |-> JsonGet(data[i], "state"),
         timestamp |-> JsonGet(data[i], "timestamp")]]

JsonFile(log) == [kind |-> "json", data |-> ujson_dumps(log)]

\* A log an earlier run has persisted.
OldLog ==
    << pickup_entry("Alice", "01.11.2026 09:00"),
       emergency_cb_entry("01.11.2026 09:05"),
       pickup_entry("Bob", "01.11.2026 09:10"),
       emergency_event_entry("01.11.2026 09:15") >>

\* messages.txt as the constructor may find it.
InitialFiles ==
    { [kind |-> "missing", data |-> << >>],
      [kind |-> "blank", data |-> << >>],        \* empty or white space only
      [kind |-> "garbage", data |-> << >>],      \* no JSON text
      [kind |-> "json_number", data |-> << >>],  \* JSON text of a number: 42
      JsonFile(OldLog) }

\* state_manager.py:40-45
ensure_message_file(f) == IF f.kind = "missing" THEN JsonFile(<< >>) ELSE f

\* state_manager.py:48-61
load_messages_from_file(f) ==
    IF f.kind = "json" THEN ujson_loads(f.data) ELSE << >>

\* state_manager.py:55, 61: ujson.loads of a number succeeds, _messages is
\* that number, and len(_messages) in the print after the try block raises
\* TypeError.
load_raises(f) == f.kind = "json_number"

\* state_manager.py:75-76  pop(0) while the list is over the limit
RECURSIVE TrimFront_PopsNewest(_)
TrimFront_PopsNewest(temp) ==
    IF Len(temp) > max_messages
    THEN TrimFront_PopsNewest(SubSeq(temp, 1, Len(temp) - 1))
    ELSE temp

RECURSIVE TrimLoop(_)
TrimLoop(temp) ==
    IF Len(temp) > max_messages THEN TrimLoop(Tail(temp)) ELSE temp

TrimFront(temp) == TrimLoop(temp)

\* The writer task with clear() and wait() exchanged: it clears the signal and
\* then waits for it
WriterAtWait_ClearsFirst(dirty) == [wpc |-> "wait", dirty |-> FALSE]

\* The writer task arriving at `await self._messages_dirty.wait()`
\* (state_manager.py:104-112): a set event lets it go on to clear() and the
\* debounce sleep at once.
WriterAtWait(dirty) ==
    IF dirty THEN [wpc |-> "sleep", dirty |-> FALSE]
    ELSE [wpc |-> "wait", dirty |-> FALSE]

\* History of the writer's debounce windows: a mutation (state_manager.py:158,
\* :187, :201, :215) that arrives after the current burst was written once
\* may be later than one debounce interval after its predecessor.
mutation_arrives ==
    /\ late' = (late \/ (wpc = "sleep" /\ nWrites >= 1))
    /\ nWrites' = nWrites

---------------------------------------------------------------------------
\* Actions of SpecStore

\* state_manager.py:15-29
StateManager_init ==
    /\ rpc = "new"
    /\ rpc' = IF load_raises(ensure_message_file(file)) THEN "raised"
              ELSE "constructed"
    /\ messages_dirty' = FALSE
    /\ file' = ensure_message_file(file)
    /\ messages' = load_messages_from_file(ensure_message_file(file))
    /\ UNCHANGED << wpc, event_queue, nCalls >>
    /\ UNCHANGED << nWrites, late >>
    /\ UNCHANGED << queueVars, oldVars, displayVars >>

\* state_manager.py:123-129  run() creates the writer task and waits for events
run_start ==
    /\ rpc = "constructed"
    /\ rpc' = "running"
    /\ wpc' = WriterAtWait(messages_dirty).wpc
    /\ messages_dirty' = WriterAtWait(messages_dirty).dirty
    /\ nWrites' = 0
    /\ late' = messages_dirty    \* mutations made any time before run()
    /\ UNCHANGED << file, messages, event_queue, nCalls >>
    /\ UNCHANGED << queueVars, oldVars, displayVars >>

\* A put with appendleft in place of append
put_event_to_queue_AtFront(e) ==
    /\ nCalls < MaxCalls
    /\ Len(event_queue) < EventQueueCap
    /\ event_queue' = << e >> \o event_queue
    /\ nCalls' = nCalls + 1
    /\ UNCHANGED << rpc, file, messages, messages_dirty, wpc >>
    /\ UNCHANGED << nWrites, late >>
    /\ UNCHANGED << queueVars, oldVars, displayVars >>

\* A collaborator's `await event_queue.put(event)` completing.
put_event_to_queue(e) ==
    /\ nCalls < MaxCalls
    /\ Len(event_queue) < EventQueueCap
    /\ event_queue' = Append(event_queue, e)
    /\ nCalls' = nCalls + 1
    /\ UNCHANGED << rpc, file, messages, messages_dirty, wpc >>
    /\ UNCHANGED << nWrites, late >>
    /\ UNCHANGED << queueVars, oldVars, displayVars >>

\* The event run() is about to handle: `event = await self.event_queue.get()`
Taking(type) ==
    /\ rpc = "running"
    /\ event_queue # << >>
    /\ Head(event_queue).type = type
    /\ event_queue' = Tail(event_queue)

\* state_manager.py:135-137, 162-166: _handle_accept only prints
handle_accept ==
    /\ Taking("BUTTON_PRESSED")
    /\ Head(event_queue).value = "ACCEPT"
    /\ UNCHANGED << rpc, file, messages, messages_dirty, wpc, nCalls >>
    /\ UNCHANGED << nWrites, late >>
    /\ UNCHANGED << queueVars, oldVars, displayVars >>

\* state_manager.py:138-139, 169-173: _handle_reject only prints
handle_reject ==
    /\ Taking("BUTTON_PRESSED")
    /\ Head(event_queue).value = "REJECT"
    /\ UNCHANGED << rpc, file, messages, messages_dirty, wpc, nCalls >>
    /\ UNCHANGED << nWrites, late >>
    /\ UNCHANGED << queueVars, oldVars, displayVars >>

\* state_manager.py:141-142, 176-188
handle_pickup ==
    /\ Taking("PICKUP")
    /\ \E ts \in Timestamps :
          messages' = Append(messages, pickup_entry(Head(event_queue).value, ts))
    /\ messages_dirty' = TRUE
    /\ UNCHANGED << rpc, file, wpc, nCalls >>
    /\ mutation_arrives
    /\ UNCHANGED << queueVars, oldVars, displayVars >>

\* state_manager.py:144-145, 190-202
handle_emergency_cb ==
    /\ Taking("EMERGENCY_CB")
    /\ \E ts \in Timestamps : messages' = Append(messages, emergency_cb_entry(ts))
    /\ messages_dirty' = TRUE
    /\ UNCHANGED << rpc, file, wpc, nCalls >>
    /\ mutation_arrives
    /\ UNCHANGED << queueVars, oldVars, displayVars >>

\* state_manager.py:147-148, 204-216
handle_emergency_event ==
    /\ Taking("EMERGENCY_EVENT")
    /\ \E ts \in Timestamps : messages' = Append(messages, emergency_event_entry(ts))
    /\ messages_dirty' = TRUE
    /\ UNCHANGED << rpc, file, wpc, nCalls >>
    /\ mutation_arrives
    /\ UNCHANGED << queueVars, oldVars, displayVars >>

\* state_manager.py:132-148: an event no branch of run() handles
OtherEvent(e) ==
    \/ e.type \notin {"BUTTON_PRESSED", "PICKUP", "EMERGENCY_CB", "EMERGENCY_EVENT"}
    \/ e.type = "BUTTON_PRESSED" /\ e.value \notin {"ACCEPT", "REJECT"}

\* run() with a final `else: raise` after its branches
handle_other_Raises ==
    /\ rpc = "running"
    /\ event_queue # << >>
    /\ OtherEvent(Head(event_queue))
    /\ event_queue' = Tail(event_queue)
    /\ rpc' = "raised"
    /\ UNCHANGED << file, messages, messages_dirty, wpc, nCalls >>
    /\ UNCHANGED << nWrites, late >>
    /\ UNCHANGED << queueVars, oldVars, displayVars >>

\* state_manager.py:135-148: no branch matches, the loop takes the next event
handle_other ==
    /\ rpc = "running"
    /\ event_queue # << >>
    /\ \/ Head(event_queue).type \notin
             {"BUTTON_PRESSED", "PICKUP", "EMERGENCY_CB", "EMERGENCY_EVENT"}
       \/ /\ Head(event_queue).type = "BUTTON_PRESSED"
          /\ Head(event_queue).value \notin {"ACCEPT", "REJECT"}
    /\ event_queue' = Tail(event_queue)
    /\ UNCHANGED << rpc, file, messages, messages_dirty, wpc, nCalls >>
    /\ UNCHANGED << nWrites, late >>
    /\ UNCHANGED << queueVars, oldVars, displayVars >>

\* state_manager.py:155-159; index counts from 0
update_state(index, new_state) ==
    /\ rpc \in {"constructed", "running"}
    /\ nCalls < MaxCalls
    /\ nCalls' = nCalls + 1
    /\ IF 0 <= index /\ index < Len(messages)
       THEN /\ messages' = [messages EXCEPT ![index + 1].state = new_state]
            /\ messages_dirty' = TRUE
            /\ mutation_arrives
       ELSE UNCHANGED << messages, messages_dirty, nWrites, late >>
    /\ UNCHANGED << rpc, file, wpc, event_queue >>
    /\ UNCHANGED << queueVars, oldVars, displayVars >>

\* state_manager.py:104-112: the waiting writer is woken by the dirty signal,
\* clears it and starts the debounce sleep
writer_wake ==
    /\ wpc = "wait"
    /\ messages_dirty
    /\ messages_dirty' = FALSE
    /\ wpc' = "sleep"
    /\ nWrites' = 0
    /\ late' = FALSE
    /\ UNCHANGED << rpc, file, messages, event_queue, nCalls >>
    /\ UNCHANGED << queueVars, oldVars, displayVars >>

\* _write_messages_to_file writing _messages instead of the trimmed copy
writer_flush_WritesUntrimmed ==
    /\ wpc = "sleep"
    /\ LET temp_messages == TrimFront(messages) IN
          /\ messages' = IF Len(temp_messages) < Len(messages)
                         THEN temp_messages ELSE messages
          /\ \/ file' = JsonFile(messages)
             \/ file' = file
             \/ file' = [kind |-> "blank", data |-> << >>]
    /\ wpc' = WriterAtWait(messages_dirty).wpc
    /\ messages_dirty' = WriterAtWait(messages_dirty).dirty
    /\ UNCHANGED << rpc, event_queue, nCalls >>
    /\ nWrites' = nWrites + 1
    /\ late' = late
    /\ UNCHANGED << queueVars, oldVars, displayVars >>

\* state_manager.py:63-87 as called at :116 after the sleep, then back to :104.
\* The write succeeds, or open() fails (file untouched), or f.write fails after
\* open() truncated the file.
writer_flush ==
    /\ wpc = "sleep"
    /\ LET temp_messages == TrimFront(messages) IN
          /\ messages' = IF Len(temp_messages) < Len(messages)
                         THEN temp_messages ELSE messages
          /\ \/ file' = JsonFile(temp_messages)
             \/ file' = file
             \/ file' = [kind |-> "blank", data |-> << >>]
    /\ wpc' = WriterAtWait(messages_dirty).wpc
    /\ messages_dirty' = WriterAtWait(messages_dirty).dirty
    /\ UNCHANGED << rpc, event_queue, nCalls >>
    /\ nWrites' = nWrites + 1
    /\ late' = late
    /\ UNCHANGED << queueVars, oldVars, displayVars >>

InitStore ==
    /\ QueueUnused
    /\ OldUnused
    /\ DisplayManager_init
    /\ rpc = "new"
    /\ file \in InitialFiles
    /\ messages = << >>
    /\ messages_dirty = FALSE
    /\ wpc = "none"
    /\ event_queue = << >>
    /\ nCalls = 0
    /\ nWrites = 0
    /\ late = FALSE

NextStore ==
    \/ StateManager_init
    \/ run_start
    \/ \E e \in Events : put_event_to_queue(e)
    \/ handle_accept
    \/ handle_reject
    \/ handle_pickup
    \/ handle_emergency_cb
    \/ handle_emergency_event
    \/ handle_other
    \/ \E index \in (0 - 1)..Len(messages), new_state \in {"accepted", "rejected"} :
          update_state(index, new_state)
    \/ writer_wake
    \/ writer_flush

SpecStore == InitStore /\ [][NextStore]_vars

\* state_manager.py:84-86: open() and f.write() raise nothing
write_succeeds == file' = JsonFile(TrimFront(messages))

\* state_manager.py:104-116 with a write that succeeds
writer_flush_written == writer_flush /\ write_succeeds

\* Calls the collaborators make in one run of SpecStoreFair.
MaxFairCalls == 2

NextStoreWritten ==
    \/ StateManager_init
    \/ run_start
    \/ \E e \in Events : nCalls < MaxFairCalls /\ put_event_to_queue(e)
    \/ handle_accept
    \/ handle_reject
    \/ handle_pickup
    \/ handle_emergency_cb
    \/ handle_emergency_event
    \/ handle_other
    \/ \E index \in (0 - 1)..Len(messages), new_state \in {"accepted", "rejected"} :
          nCalls < MaxFairCalls /\ update_state(index, new_state)
    \/ writer_wake
    \/ writer_flush_written

\* The store with a writer task that uasyncio keeps scheduling once run() has
\* created it (state_manager.py:125) and with writes that succeed: a set
\* signal resumes the writer, and the 500 ms sleep ends.
SpecStoreFair ==
    /\ InitStore
    /\ [][NextStoreWritten]_vars
    /\ WF_vars(writer_wake)
    /\ WF_vars(writer_flush_written)


---------------------------------------------------------------------------
\* Properties of StateManager, checked under SpecStore.

\* get_message without the test of the newest message's state
ActiveIndex_IgnoresState(log) ==
    IF log # << >> THEN Len(log) - 1 ELSE 0 - 1

\* state_manager_old.py:146-151: the message eligible for accept/reject and
\* shown on the display is the newest one while it waits; its index counts
\* from 0 and -1 stands for none.
ActiveIndex(log) ==
    IF log # << >> /\ log[Len(log)].state = "wait" THEN Len(log) - 1 ELSE 0 - 1

\* run() takes the event at the head of the queue and handles it in this step.
Handling == rpc = "running" /\ event_queue # << >> /\ event_queue' = Tail(event_queue)

\* C6: the in-memory log never holds more than max_messages entries.
C6_LogWithinMax == Len(messages) <= max_messages

\* C7: every step that shortens the log removes entries from its front only
\* and leaves exactly the max_messages newest entries, in their order.
C7_OldestFirstEviction ==
    [][Len(messages') < Len(messages) =>
          /\ Len(messages') = max_messages
          /\ messages' = SubSeq(messages, Len(messages) - max_messages + 1,
                                Len(messages))]_vars

\* The writer has trimmed a log of seven entries: the two oldest are gone.
C7_Witness ==
    /\ Len(messages) = max_messages
    /\ messages[1] = OldLog[3]
    /\ messages[max_messages].type = "PICKUP"
    /\ messages[max_messages].value = "Bob"

\* C8: handling PICKUP, EMERGENCY_CB or EMERGENCY_EVENT appends one message
\* with state "wait" and the event's type (and, for PICKUP, its text) to the
\* end of the log, changes no earlier message and raises the dirty signal.
C8_AppendsWaitingMessage ==
    [][(Handling /\ Head(event_queue).type \in
                       {"PICKUP", "EMERGENCY_CB", "EMERGENCY_EVENT"}) =>
          /\ Len(messages') = Len(messages) + 1
          /\ SubSeq(messages', 1, Len(messages)) = messages
          /\ messages'[Len(messages')].state = "wait"
          /\ messages'[Len(messages')].type = Head(event_queue).type
          /\ (Head(event_queue).type = "PICKUP" =>
                messages'[Len(messages')].value = Head(event_queue).value)
          /\ messages_dirty']_vars

\* PICKUP "Bob" has been handled on a log that already held messages.
C8_Witness ==
    /\ Len(messages) >= 2
    /\ messages[Len(messages)] = pickup_entry("Bob", "02.11.2026 10:00")
    /\ messages_dirty
    /\ event_queue = << >>

\* C10: handling BUTTON_PRESSED ACCEPT (REJECT) while a message is active sets
\* that message's state to accepted (rejected), leaves no message active and
\* raises the dirty signal.
C10_ButtonSettlesActive ==
    [][(/\ Handling
        /\ Head(event_queue).type = "BUTTON_PRESSED"
        /\ Head(event_queue).value \in {"ACCEPT", "REJECT"}
        /\ ActiveIndex(messages) # 0 - 1) =>
          /\ Len(messages') = Len(messages)
          /\ messages'[ActiveIndex(messages) + 1].state =
                (IF Head(event_queue).value = "ACCEPT" THEN "accepted" ELSE "rejected")
          /\ ActiveIndex(messages') = 0 - 1
          /\ messages_dirty']_vars


\* C13: the mutations of one burst (all arriving before or during the debounce
\* sleep their first one started) lead to exactly one call of the full-log
\* write: the writer never writes a second time for them.
C13_OneWritePerBurst == ~late => nWrites <= 1

\* C14: the constructor never raises; it leaves no missing file behind, and
\* after it has read an empty or undecodable file the log is the empty list.
C14_StartupNeverFails ==
    /\ rpc # "raised"
    /\ rpc # "new" => file.kind # "missing"
    /\ (rpc = "constructed" /\ nCalls = 0 /\ file.kind # "json") => messages = << >>

\* C15: when the file write of a flush fails (the file does not hold the log
\* afterwards), the log in memory is kept and the write is retried without a
\* further mutation: the writer is in a new debounce sleep or the dirty signal
\* is raised.
C15_FailedWriteRetried ==
    [][(/\ wpc = "sleep"
        /\ nWrites' = nWrites + 1
        /\ file' # JsonFile(TrimFront(messages))) =>
          /\ messages' = TrimFront(messages)
          /\ wpc' = "sleep" \/ messages_dirty']_vars

---------------------------------------------------------------------------
\* main.py with state_manager_old.py (the module main.py imports as
\* state_manager) and display_manager2.py (its DisplayManager with set_text)

\* Bounds of this model.
\* Calls the web server and the buttons make in one run.
MaxOldCalls == 2
\* display_message_from_state_task instances existing at the same time.
MaxDisplayTasks == 2

\* state_manager_old.py:6
old_max_messages == 5

\* The dicts webserver.handle_post hands to set_message (webserver.py:79-95).
WebMessages ==
    { [type |-> "pickup", text |-> "Alice", state |-> "wait"],
      [type |-> "emergency_cb", text |-> "NOTFALL: Stafflerteam anfordern (CB)",
       state |-> "wait"],
      [type |-> "emergency_event",
       text |-> "NOTFALL: Sanitaeterteam anfordern (Veranstaltung)",
       state |-> "wait"] }

\* state_manager_old.py:78-84: the entry set_message stores
stored_message(msg, ts) ==
    [type |-> msg.type, text |-> msg.text, state |-> msg.state, timestamp |-> ts]

\* state_manager_old.py:87  _messages[-_max_messages:]
LastN(log, n) ==
    IF Len(log) > n THEN SubSeq(log, Len(log) - n + 1, Len(log)) ELSE log

\* state_manager_old.py:163-164: one line "type|state|timestamp|text" per entry
file_lines(log) ==
    [i \in 1..Len(log) |->
        << log[i].type, log[i].state, log[i].timestamp, log[i].text >>]

\* state_manager_old.py:21-57: the last _max_messages lines, split in four
init_state(lines) ==
    LET kept == LastN(lines, old_max_messages) IN
    [i \in 1..Len(kept) |->
        [type |-> kept[i][1], state |-> kept[i][2], timestamp |-> kept[i][3],
         text |-> kept[i][4]]]

\* messages.txt as main() may find it: missing or empty, or one waiting pickup.
OldInitialFiles ==
    { << >>, << << "pickup", "wait", "01.11.2026 09:00", "Carla" >> >> }

\* get_message looking for the newest message that still waits
get_message_NewestWaiting(log) ==
    LET waiting == {i \in 1..Len(log) : log[i].state = "wait"} IN
    IF waiting = {} THEN ""
    ELSE log[CHOOSE i \in waiting : \A j \in waiting : j <= i].text

\* state_manager_old.py:140-151
get_message(log) ==
    IF log # << >> /\ log[Len(log)].state = "wait" THEN log[Len(log)].text ELSE ""

\* main.py:29-31
display_text(current_message) ==
    IF current_message # "" THEN "Pickup: " \o current_message ELSE ""

\* state_manager_old.py:160-166: the file is rewritten, or open() raises and
\* the except branch leaves it as it was
save_to_file ==
    \/ old_file' = file_lines(old_messages')
    \/ old_file' = old_file

\* main.py:12-16, reached through _display_callback (state_manager_old.py:90-91)
start_main_display_task ==
    IF main_display_task_running
    THEN UNCHANGED dtask
    ELSE /\ Len(dtask) < MaxDisplayTasks
         /\ dtask' = Append(dtask, [pc |-> "created", last_message |-> ""])

\* The task _scroll_task refers to has been created and has neither returned
\* nor been cancelled (display_manager2.py:66)
live_scroll_task == IF scroll_task \in {"created", "scrolling"} THEN 1 ELSE 0

\* set_text without lines 66-67: the old task is not cancelled
set_text_NoCancel(text) ==
    IF text # current_text
    THEN /\ current_text' = text
         /\ scroll_task' = IF text # "" THEN "created" ELSE scroll_task
         /\ nScroll' = nScroll + (IF text # "" THEN 1 ELSE 0)
    ELSE UNCHANGED << current_text, scroll_task, nScroll >>

\* display_manager2.py:60-71
set_text(text) ==
    IF text # current_text
    THEN /\ current_text' = text
         /\ scroll_task' =
               IF text # "" THEN "created"
               ELSE IF scroll_task \in {"created", "scrolling"} THEN "cancelled"
               ELSE scroll_task
         /\ nScroll' = nScroll - live_scroll_task + (IF text # "" THEN 1 ELSE 0)
    ELSE UNCHANGED << current_text, scroll_task, nScroll >>

Remove(seq, i) == SubSeq(seq, 1, i - 1) \o SubSeq(seq, i + 1, Len(seq))

---------------------------------------------------------------------------
\* Actions of SpecOld

\* main.py:90-94: main() creates server_task when connect_wifi() returned an
\* address, whatever became of the display
server_task_started == ip

\* main.py:101: main() creates hardware.button_task() after the display and
\* WLAN branches; a DisplayInitializationError is caught before (main.py:85-87)
button_task_started == TRUE

\* state_manager_old.py:72-91, called by webserver.handle_post
set_message(msg) ==
    /\ server_task_started
    /\ nOldCalls < MaxOldCalls
    /\ nOldCalls' = nOldCalls + 1
    /\ \E ts \in Timestamps :
          old_messages' =
             LastN(Append(old_messages, stored_message(msg, ts)), old_max_messages)
    /\ save_to_file
    /\ start_main_display_task
    /\ UNCHANGED << ip, display_manager, main_display_task_running, ipc,
                    current_text, scroll_task, nScroll, powered, shown >>
    /\ UNCHANGED << queueVars, storeVars, displayVars >>

\* state_manager_old.py:105-113 and :115-123, called by the button task
settle_last_message(new_state) ==
    /\ button_task_started
    /\ nOldCalls < MaxOldCalls
    /\ nOldCalls' = nOldCalls + 1
    /\ IF old_messages # << >>
       THEN /\ old_messages' =
                  [old_messages EXCEPT ![Len(old_messages)].state = new_state]
            /\ save_to_file
       ELSE UNCHANGED << old_messages, old_file >>
    /\ start_main_display_task
    /\ UNCHANGED << ip, display_manager, main_display_task_running, ipc,
                    current_text, scroll_task, nScroll, powered, shown >>
    /\ UNCHANGED << queueVars, storeVars, displayVars >>

accept_last_message == settle_last_message("accept")

reject_last_message == settle_last_message("reject")

\* state_manager_old.py:96-103, called by webserver.change_state; index counts
\* from 0
old_update_state(index, new_state) ==
    /\ server_task_started
    /\ nOldCalls < MaxOldCalls
    /\ nOldCalls' = nOldCalls + 1
    /\ IF 0 <= index /\ index < Len(old_messages)
       THEN /\ old_messages' = [old_messages EXCEPT ![index + 1].state = new_state]
            /\ save_to_file
       ELSE UNCHANGED << old_messages, old_file >>
    /\ start_main_display_task
    /\ UNCHANGED << ip, display_manager, main_display_task_running, ipc,
                    current_text, scroll_task, nScroll, powered, shown >>
    /\ UNCHANGED << queueVars, storeVars, displayVars >>

\* state_manager_old.py:128-135
clear_message ==
    /\ nOldCalls < MaxOldCalls
    /\ nOldCalls' = nOldCalls + 1
    /\ IF old_messages # << >>
       THEN /\ old_messages' = SubSeq(old_messages, 1, Len(old_messages) - 1)
            /\ save_to_file
       ELSE UNCHANGED << old_messages, old_file >>
    /\ start_main_display_task
    /\ UNCHANGED << ip, display_manager, main_display_task_running, ipc,
                    current_text, scroll_task, nScroll, powered, shown >>
    /\ UNCHANGED << queueVars, storeVars, displayVars >>

\* main.py:26-44: one pass of the while loop of task i, whose last_message is
\* `last`, up to its next sleep; `running` is _main_display_task_running as
\* the pass finds it
display_loop_pass(i, last, running) ==
    LET current_message == get_message(old_messages)
        text == display_text(current_message) IN
    IF text # last
    THEN /\ set_text(text)
         /\ IF current_message = ""
            THEN /\ main_display_task_running' = FALSE
                 /\ dtask' = [dtask EXCEPT ![i] = [pc |-> "exiting", last_message |-> text]]
            ELSE /\ main_display_task_running' = running
                 /\ dtask' = [dtask EXCEPT ![i] = [pc |-> "sleeping", last_message |-> text]]
    ELSE /\ main_display_task_running' = running
         /\ dtask' = [dtask EXCEPT ![i] = [pc |-> "sleeping", last_message |-> last]]
         /\ UNCHANGED << current_text, scroll_task, nScroll >>

\* main.py:18-21 without the test of display_manager
display_task_start_NoNoneCheck(i) ==
    /\ i \in 1..Len(dtask)
    /\ dtask[i].pc = "created"
    /\ display_loop_pass(i, "", TRUE)
    /\ UNCHANGED << old_messages, old_file, ip, display_manager, ipc, powered,
                    shown, nOldCalls >>
    /\ UNCHANGED << queueVars, storeVars, displayVars >>

\* main.py:18-44: the task runs for the first time
display_task_start(i) ==
    /\ i \in 1..Len(dtask)
    /\ dtask[i].pc = "created"
    /\ IF display_manager = "None"
       THEN /\ dtask' = Remove(dtask, i)                     \* return
            /\ UNCHANGED << main_display_task_running, current_text, scroll_task, nScroll >>
       ELSE display_loop_pass(i, "", TRUE)
    /\ UNCHANGED << old_messages, old_file, ip, display_manager, ipc, powered,
                    shown, nOldCalls >>
    /\ UNCHANGED << queueVars, storeVars, displayVars >>

\* main.py:26-44: the task wakes from `await asyncio.sleep(1)`
display_task_pass(i) ==
    /\ i \in 1..Len(dtask)
    /\ dtask[i].pc = "sleeping"
    /\ display_loop_pass(i, dtask[i].last_message, main_display_task_running)
    /\ UNCHANGED << old_messages, old_file, ip, display_manager, ipc, powered,
                    shown, nOldCalls >>
    /\ UNCHANGED << queueVars, storeVars, displayVars >>

\* main.py:41-42: the task returns after `await asyncio.sleep(0.1)`
display_task_exit(i) ==
    /\ i \in 1..Len(dtask)
    /\ dtask[i].pc = "exiting"
    /\ dtask' = Remove(dtask, i)
    /\ UNCHANGED << old_messages, old_file, ip, display_manager,
                    main_display_task_running, ipc, current_text, scroll_task, nScroll,
                    powered, shown, nOldCalls >>
    /\ UNCHANGED << queueVars, storeVars, displayVars >>

\* main.py:46-53: initial_display_task shows its message and sleeps
initial_display_start ==
    /\ ipc = "created"
    /\ set_text(IF ip THEN "Bereit" ELSE "WLAN Fehler")
    /\ ipc' = "sleeping"
    /\ UNCHANGED << old_messages, old_file, ip, display_manager,
                    main_display_task_running, dtask, powered, shown, nOldCalls >>
    /\ UNCHANGED << queueVars, storeVars, displayVars >>

\* main.py:55-62: after the sleep it starts the main display task for an old
\* waiting message, or darkens the display
initial_display_end ==
    /\ ipc = "sleeping"
    /\ ipc' = "done"
    /\ IF get_message(old_messages) # ""
       THEN /\ start_main_display_task
            /\ UNCHANGED << current_text, scroll_task, nScroll >>
       ELSE /\ set_text("")
            /\ UNCHANGED dtask
    /\ UNCHANGED << old_messages, old_file, ip, display_manager,
                    main_display_task_running, powered, shown, nOldCalls >>
    /\ UNCHANGED << queueVars, storeVars, displayVars >>

\* display_manager2.py:92-101: the scroll task created by set_text runs: it
\* powers the panel on and renders the text, once if it fits the width
scroll_task_start ==
    /\ scroll_task = "created"
    /\ powered' = TRUE
    /\ shown' = current_text
    /\ \E fits \in BOOLEAN :
          /\ scroll_task' = IF fits THEN "done" ELSE "scrolling"
          /\ nScroll' = IF fits THEN nScroll - 1 ELSE nScroll
    /\ UNCHANGED << old_messages, old_file, ip, display_manager,
                    main_display_task_running, dtask, ipc, current_text,
                    nOldCalls >>
    /\ UNCHANGED << queueVars, storeVars, displayVars >>

\* main.py:64-101: the state main() leaves when it enters its idle loop
InitOld ==
    /\ QueueUnused
    /\ StoreUnused
    /\ DisplayManager_init
    /\ old_file \in OldInitialFiles
    /\ old_messages = init_state(old_file)
    /\ ip \in BOOLEAN
    /\ display_manager \in {"None", "ok"}
    /\ main_display_task_running = FALSE
    /\ dtask = << >>
    /\ ipc = IF display_manager = "ok" THEN "created" ELSE "none"
    /\ current_text = ""
    /\ scroll_task = "none"
    /\ nScroll = 0
    /\ powered = FALSE
    /\ shown = ""
    /\ nOldCalls = 0

NextOld ==
    \/ \E msg \in WebMessages : set_message(msg)
    \/ accept_last_message
    \/ reject_last_message
    \/ \E index \in (0 - 1)..Len(old_messages), new_state \in {"wait", "accept"} :
          old_update_state(index, new_state)
    \/ clear_message
    \/ \E i \in 1..MaxDisplayTasks : display_task_start(i)
    \/ \E i \in 1..MaxDisplayTasks : display_task_pass(i)
    \/ \E i \in 1..MaxDisplayTasks : display_task_exit(i)
    \/ initial_display_start
    \/ initial_display_end
    \/ scroll_task_start

SpecOld == InitOld /\ [][NextOld]_vars

---------------------------------------------------------------------------
\* Properties of the main.py wiring, checked under SpecOld.

\* C9: handling a pickup makes the new message the active one, and the render
\* instruction emitted for it is SetText("Kind abholen: " + text): whenever the
\* display task hands a text for a newest waiting pickup to the display, the
\* message is the active one and the text has that form.
C9_PickupRenderedAsKindAbholen ==
    [][(/\ current_text' # current_text
        /\ current_text' # ""
        /\ ipc' = ipc
        /\ old_messages # << >>
        /\ old_messages[Len(old_messages)].type = "pickup") =>
          /\ ActiveIndex(old_messages) = Len(old_messages) - 1
          /\ current_text' =
                "Kind abholen: " \o old_messages[Len(old_messages)].text]_vars

\* C11: an accept or reject press while no message is active changes no
\* message, writes nothing to the file and hands nothing to the display.
C11_PressWithoutActiveIsNoOp ==
    [][(/\ accept_last_message \/ reject_last_message
        /\ ActiveIndex(old_messages) = 0 - 1) =>
          /\ old_messages' = old_messages
          /\ old_file' = old_file
          /\ current_text' = current_text]_vars

---------------------------------------------------------------------------
\* display_manager.py: DisplayManager.run() handling NEWTEXT / DELETETEXT
\* events in the uasyncio loop on core 0, and _core1_scroll_thread on core 1.
\* The two run in parallel; one step is the code one of them runs up to its
\* next acquisition or release of self._core1_lock, or up to its next sleep.

\* Bounds of this model.
\* Events taken from the display queue in one run.
MaxDisplayEvents == 3
\* Frames of scrolling text rendered in one run while the text stays the
\* same: one pass of "Pickup: Alice" (107 frames) and the start of the next.
MaxFrames == 108

\* display_manager.py:11-20
DISPLAY_WIDTH == 128
DISPLAY_HEIGHT == 64
SCROLL_SPEED == 3
\* SCALE_FACTOR_WIDTH = 1.5 as a fraction
SCALE_FACTOR_WIDTH_NUM == 3
SCALE_FACTOR_WIDTH_DEN == 2
SCALE_FACTOR_HEIGHT == 6

\* The events run() may take from the display queue; event.get("value", "")
\* of a NEWTEXT event without a value is "".
DisplayEvents ==
    { [type |-> "NEWTEXT", value |-> "Alice"],
      [type |-> "NEWTEXT", value |-> "Pickup: Alice"],
      [type |-> "NEWTEXT", value |-> ""],
      [type |-> "DELETETEXT", value |-> ""],
      [type |-> "PING", value |-> ""] }

\* display_manager.py:155-184 (padded_text is given by its length)
calculate_scaled_dims(text) ==
    LET text_length == Len(text)
        padding_length == IF text_length % 8 # 0 THEN 8 - (text_length % 8) ELSE 0
        text_length_padded == text_length + padding_length
        base_width == text_length_padded * 8
        scaled_width == (base_width * SCALE_FACTOR_WIDTH_NUM) \div SCALE_FACTOR_WIDTH_DEN
        scaled_height == 8 * SCALE_FACTOR_HEIGHT
    IN  [scaled_width |-> scaled_width,
         scaled_height |-> scaled_height,
         y_start |-> (DISPLAY_HEIGHT - scaled_height) \div 2,
         x_start |-> IF scaled_width <= DISPLAY_WIDTH
                     THEN (DISPLAY_WIDTH - scaled_width) \div 2
                     ELSE DISPLAY_WIDTH,
         x_end |-> IF scaled_width <= DISPLAY_WIDTH
                   THEN (DISPLAY_WIDTH - scaled_width) \div 2
                   ELSE 0 - scaled_width,
         base_width |-> base_width]

\* display_manager.py:227-238, 73-112: for a text of width 0 the frame buffers
\* cannot be built: framebuf.FrameBuffer rejects width 0, or scale_framebuf
\* divides width_source by width_dest = 0 and raises FramebufferScalingError
scale_raises(dims) == dims.scaled_width = 0

\* the scroll position without the reset at the end of a pass
next_x_NoReset(x, start, end) == x - SCROLL_SPEED

\* display_manager.py:251-255: the position of the frame after the one at x
next_x(x, start, end) ==
    IF x - SCROLL_SPEED <= end THEN start ELSE x - SCROLL_SPEED

---------------------------------------------------------------------------
\* Actions of SpecDisplay

\* display_manager.py:279-286, 131-150: run() gets an event and handle_event
\* works on it up to the with statement of _update_text_and_power
handle_event(e) ==
    /\ dpc = "idle"
    /\ nEvents < MaxDisplayEvents
    /\ nEvents' = nEvents + 1
    /\ event' = e
    /\ IF e.type = "NEWTEXT"
       THEN IF e.value # dm_current_text
            THEN /\ dm_current_text' = e.value
                 /\ upd' = [new_text |-> e.value, power_on |-> TRUE]
                 /\ dpc' = "lock"
            ELSE UNCHANGED << dm_current_text, upd, dpc >>
       ELSE IF e.type = "DELETETEXT"
            THEN /\ upd' = [new_text |-> "", power_on |-> FALSE]
                 /\ dpc' = "lock"
                 /\ UNCHANGED dm_current_text
            ELSE UNCHANGED << dm_current_text, upd, dpc >>
    /\ UNCHANGED << core1_text, core1_power_on, core1_running, core1_lock, tpc,
                    new_text, is_power_on, r_text, x_start, x_end, y_start, current_x,
                    panel_on, panel_text, panel_x, panel_y, nStarts, nFrames, fresh >>
    /\ UNCHANGED last_pair
    /\ UNCHANGED << queueVars, storeVars, oldVars >>

\* display_manager.py:123: core 0 gets the lock; it spins while core 1 holds it
update_lock ==
    /\ dpc = "lock"
    /\ core1_lock = "free"
    /\ core1_lock' = "core0"
    /\ dpc' = "locked"
    /\ UNCHANGED << event, upd, dm_current_text, core1_text, core1_power_on,
                    core1_running, tpc, new_text, is_power_on, r_text, x_start,
                    x_end, y_start, current_x, panel_on, panel_text, panel_x, panel_y, nStarts,
                    nFrames, nEvents, fresh >>
    /\ UNCHANGED last_pair
    /\ UNCHANGED << queueVars, storeVars, oldVars >>

\* display_manager.py:124: the text is written
update_write_text ==
    /\ dpc = "locked"
    /\ core1_text' = upd.new_text
    /\ dpc' = "locked_power"
    /\ UNCHANGED << event, upd, dm_current_text, core1_power_on, core1_running,
                    core1_lock, tpc, new_text, is_power_on, r_text, x_start,
                    x_end, y_start, current_x, panel_on, panel_text, panel_x,
                    panel_y, nStarts, nFrames, nEvents, fresh >>
    /\ UNCHANGED last_pair
    /\ UNCHANGED << queueVars, storeVars, oldVars >>

\* display_manager.py:125: the power state is written and the lock is released
update_write ==
    /\ dpc = "locked_power"
    /\ core1_power_on' = upd.power_on
    /\ core1_lock' = "free"
    /\ dpc' = "check"
    /\ fresh' = FALSE
    /\ last_pair' = [text |-> core1_text, power_on |-> upd.power_on]
    /\ UNCHANGED << event, upd, dm_current_text, core1_text, core1_running, tpc,
                    new_text, is_power_on, r_text, x_start, x_end, y_start,
                    current_x, panel_on, panel_text, panel_x, panel_y, nStarts,
                    nFrames, nEvents >>
    /\ UNCHANGED << queueVars, storeVars, oldVars >>

\* display_manager.py:127-129, then 141 or 146-147: the thread is started
\* unless _core1_running is set. On the RP2040 _thread.start_new_thread raises
\* OSError while core 1 still runs a thread; the exception leaves
\* handle_event and run().
update_check ==
    /\ dpc = "check"
    /\ IF core1_running
       THEN /\ dpc' = "idle"
            /\ dm_current_text' =
                  IF event.type = "DELETETEXT" THEN "" ELSE dm_current_text
            /\ UNCHANGED << tpc, nStarts >>
       ELSE /\ nStarts' = nStarts + 1
            /\ IF tpc \in {"none", "dead"}
               THEN /\ tpc' = "starting"
                    /\ dpc' = "idle"
                    /\ dm_current_text' =
                          IF event.type = "DELETETEXT" THEN "" ELSE dm_current_text
               ELSE /\ dpc' = "raised"
                    /\ UNCHANGED << tpc, dm_current_text >>
    /\ UNCHANGED << event, upd, core1_text, core1_power_on, core1_running,
                    core1_lock, new_text, is_power_on, r_text, x_start, x_end, y_start,
                    current_x, panel_on, panel_text, panel_x, panel_y, nFrames, nEvents,
                    fresh >>
    /\ UNCHANGED last_pair
    /\ UNCHANGED << queueVars, storeVars, oldVars >>

\* display_manager.py:194-201: the thread begins to run on core 1
thread_start ==
    /\ tpc = "starting"
    /\ core1_running' = TRUE
    /\ r_text' = ""
    /\ x_start' = 0
    /\ x_end' = 0
    /\ y_start' = 0
    /\ current_x' = 0
    /\ tpc' = "loop"
    /\ UNCHANGED << dpc, event, upd, dm_current_text, core1_text,
                    core1_power_on, core1_lock, new_text, is_power_on, panel_on,
                    panel_text, panel_x, panel_y, nStarts, nFrames, nEvents, fresh >>
    /\ UNCHANGED last_pair
    /\ UNCHANGED << queueVars, storeVars, oldVars >>

\* The loop entering its read without the with statement of line 205
thread_lock_NoAcquire ==
    /\ tpc = "loop"
    /\ core1_running
    /\ tpc' = "read"
    /\ UNCHANGED << dpc, event, upd, dm_current_text, core1_text,
                    core1_power_on, core1_running, core1_lock, new_text,
                    is_power_on, r_text, x_start, x_end, y_start, current_x,
                    panel_on, panel_text, panel_x, panel_y, nStarts, nFrames,
                    nEvents, fresh >>
    /\ UNCHANGED last_pair
    /\ UNCHANGED << queueVars, storeVars, oldVars >>

\* display_manager.py:203-205: the loop gets the lock for its read
thread_lock ==
    /\ tpc = "loop"
    /\ core1_running
    /\ core1_lock = "free"
    /\ core1_lock' = "core1"
    /\ tpc' = "read"
    /\ UNCHANGED << dpc, event, upd, dm_current_text, core1_text,
                    core1_power_on, core1_running, new_text, is_power_on, r_text,
                    x_start, x_end, y_start, current_x, panel_on, panel_text, panel_x, panel_y,
                    nStarts, nFrames, nEvents, fresh >>
    /\ UNCHANGED last_pair
    /\ UNCHANGED << queueVars, storeVars, oldVars >>

\* display_manager.py:246-260 up to the with statement of
\* _render_scaled_framebuf (:270-273), in an iteration that found the text
\* unchanged: with a scrolling text and the frame delay elapsed the next frame
\* is drawn into the buffer; otherwise the loop goes round
scroll_logic ==
    IF x_start # x_end
    THEN \/ /\ nFrames < MaxFrames
            /\ nFrames' = nFrames + 1
            /\ tpc' = "flush"
         \/ /\ tpc' = "loop"          \* ticks_diff(now, last_frame_time) < 1
            /\ UNCHANGED nFrames
    ELSE /\ tpc' = "loop"
         /\ UNCHANGED nFrames

\* display_manager.py:206-244, then 246-260: the pair is read, the lock is
\* released and the iteration runs up to its sleep, to the with statement of
\* _render_scaled_framebuf, or to an exception that ends the thread
thread_iteration ==
    /\ tpc = "read"
    /\ new_text' = core1_text
    /\ is_power_on' = core1_power_on
    /\ core1_lock' = "free"
    /\ fresh' = TRUE
    /\ IF ~core1_power_on
       THEN /\ panel_on' = FALSE                         \* display.poweroff()
            /\ tpc' = "loop"
            /\ UNCHANGED << r_text, x_start, x_end, y_start, current_x, nFrames >>
       ELSE /\ panel_on' = TRUE                          \* display.poweron()
            /\ IF core1_text # r_text
               THEN LET dims == calculate_scaled_dims(core1_text) IN
                    /\ r_text' = core1_text
                    /\ x_start' = dims.x_start
                    /\ x_end' = dims.x_end
                    /\ y_start' = dims.y_start
                    /\ current_x' = dims.x_start
                    /\ IF scale_raises(dims)
                       THEN tpc' = "dead" /\ UNCHANGED nFrames
                       ELSE IF dims.x_start = dims.x_end
                       THEN tpc' = "flush" /\ UNCHANGED nFrames
                       \* :246-250 after scale_framebuf, which takes far
                       \* longer than SCROLL_DELAY_MS: the frame is drawn
                       ELSE tpc' = "flush" /\ nFrames' = nFrames + 1
               ELSE /\ UNCHANGED << r_text, x_start, x_end, y_start, current_x >>
                    /\ scroll_logic
    /\ UNCHANGED << dpc, event, upd, dm_current_text, core1_text,
                    core1_power_on, core1_running, panel_text, panel_x, panel_y, nStarts,
                    nEvents >>
    /\ UNCHANGED last_pair
    /\ UNCHANGED << queueVars, storeVars, oldVars >>

\* display_manager.py:273: _render_scaled_framebuf gets the lock
render_lock ==
    /\ tpc = "flush"
    /\ core1_lock = "free"
    /\ core1_lock' = "core1"
    /\ tpc' = "show"
    /\ UNCHANGED << dpc, event, upd, dm_current_text, core1_text,
                    core1_power_on, core1_running, new_text, is_power_on, r_text,
                    x_start, x_end, y_start, current_x, panel_on, panel_text, panel_x, panel_y,
                    nStarts, nFrames, nEvents, fresh >>
    /\ UNCHANGED last_pair
    /\ UNCHANGED << queueVars, storeVars, oldVars >>

\* display_manager.py:274, then 243-244 or 251-257: display.show() sends the
\* buffer to the panel and the lock is released
render_show ==
    /\ tpc = "show"
    /\ panel_text' = r_text
    /\ panel_x' = current_x
    /\ panel_y' = y_start
    /\ core1_lock' = "free"
    /\ current_x' = IF x_start = x_end THEN current_x
                    ELSE next_x(current_x, x_start, x_end)
    /\ tpc' = "loop"
    /\ UNCHANGED << dpc, event, upd, dm_current_text, core1_text,
                    core1_power_on, core1_running, new_text, is_power_on, r_text,
                    x_start, x_end, y_start, panel_on, nStarts, nFrames, nEvents, fresh >>
    /\ UNCHANGED last_pair
    /\ UNCHANGED << queueVars, storeVars, oldVars >>

InitDisplay ==
    /\ QueueUnused
    /\ StoreUnused
    /\ OldUnused
    /\ DisplayManager_init

NextDisplay ==
    \/ \E e \in DisplayEvents : handle_event(e)
    \/ update_lock
    \/ update_write_text
    \/ update_write
    \/ update_check
    \/ thread_start
    \/ thread_lock
    \/ thread_iteration
    \/ render_lock
    \/ render_show

SpecDisplay == InitDisplay /\ [][NextDisplay]_vars

---------------------------------------------------------------------------
\* Properties of DisplayManager (display_manager.py), checked under SpecDisplay.

\* What the panel shows for a requested text: the text with the panel on, or
\* a dark panel for the empty text.
PanelShows(text) ==
    IF text # "" THEN panel_on /\ panel_text = text ELSE ~panel_on

\* C16: while display.show() runs on core 1 the lock of the shared pair is
\* not held by core 1.
C16_LockFreeDuringShow == tpc = "show" => core1_lock # "core1"

\* C17: _thread.start_new_thread is called at most once, and only by a
\* request that carries a text.
C17_ThreadStartedOnceForText ==
    [][nStarts' # nStarts => (nStarts = 0 /\ core1_text # "")]_vars

\* C18: when the thread reads a text other than the one it read before and
\* draws a frame, it has taken the bounds of the new text and draws the
\* frame at the first position of that text.
C18_TextChangeResetsOffset ==
    [][(tpc = "read" /\ tpc' = "flush" /\ core1_text # new_text) =>
          /\ x_start' = calculate_scaled_dims(core1_text).x_start
          /\ x_end' = calculate_scaled_dims(core1_text).x_end
          /\ current_x' = calculate_scaled_dims(core1_text).x_start]_vars

\* C19: an empty requested text is always requested with power off; the
\* thread that reads it powers the panel off and goes back to its loop, and
\* it never draws or flushes a frame for an empty text.
C19_EmptyTextPowersOff ==
    /\ [](/\ (core1_text = "" /\ dpc # "locked_power") => ~core1_power_on
          /\ tpc \in {"flush", "show"} => new_text # "")
    /\ [][(tpc = "read" /\ tpc' # "read" /\ core1_text = "") =>
             (~panel_on' /\ tpc' = "loop")]_vars

\* C20: once the thread has read the pair written by the last handled event
\* and has finished that iteration, the panel shows the last request: its
\* text, or a dark panel if the text is empty.
C20_PanelShowsLastRequest ==
    (dpc = "idle" /\ fresh /\ tpc \in {"loop", "dead"}) => PanelShows(core1_text)

\* display_manager.py:177: a text that is shown without scrolling
fits_display(text) ==
    text # "" /\ calculate_scaled_dims(text).scaled_width <= DISPLAY_WIDTH

\* C21: a text that fits the display is rendered once when the thread reads
\* it after another text, is not rendered again while the thread reads the
\* same text, and is flushed centred: x = (128 - width) div 2,
\* y = (64 - height) div 2.
C21_StaticRenderedOncePerChange ==
    [][/\ (/\ tpc = "read" /\ tpc' # "read"
           /\ fits_display(core1_text) /\ core1_text # new_text) =>
             tpc' = "flush"
       /\ (/\ tpc = "read" /\ tpc' # "read"
           /\ fits_display(core1_text) /\ core1_text = new_text) =>
             tpc' = "loop"
       /\ (tpc = "show" /\ tpc' # "show" /\ fits_display(r_text)) =>
             /\ panel_text' = r_text
             /\ panel_x' = (DISPLAY_WIDTH
                              - calculate_scaled_dims(r_text).scaled_width) \div 2
             /\ panel_y' = (DISPLAY_HEIGHT
                              - calculate_scaled_dims(r_text).scaled_height) \div 2
      ]_vars

\* C22: for a text wider than the display the position starts at DISPLAY_WIDTH
\* when the text is taken up, every frame is flushed at a position x with
\* -width < x <= DISPLAY_WIDTH, a frame that follows a frame of the same text
\* is SCROLL_SPEED to its left or, after the last frame of a pass, at
\* DISPLAY_WIDTH again, and the position is reset to DISPLAY_WIDTH exactly
\* when the next step would reach -width.
C22_ScrollOffsetInRange ==
    [][/\ (/\ tpc = "read" /\ tpc' # "read" /\ core1_power_on
           /\ core1_text # r_text /\ core1_text # ""
           /\ ~fits_display(core1_text)) =>
             (current_x' = DISPLAY_WIDTH /\ tpc' = "flush")
       /\ (tpc = "show" /\ tpc' # "show" /\ ~fits_display(r_text)) =>
             LET width == calculate_scaled_dims(r_text).scaled_width IN
             /\ panel_x' > 0 - width
             /\ panel_x' <= DISPLAY_WIDTH
             /\ panel_text = r_text =>
                   \/ panel_x' = panel_x - SCROLL_SPEED
                   \/ panel_x' = DISPLAY_WIDTH /\ panel_x - SCROLL_SPEED <= 0 - width
             /\ current_x' = IF panel_x' - SCROLL_SPEED <= 0 - width
                             THEN DISPLAY_WIDTH
                             ELSE panel_x' - SCROLL_SPEED
      ]_vars

\* The last frame of a pass of "Pickup: Alice" has been flushed at -190 and
\* the position is back at DISPLAY_WIDTH.
C22_Witness ==
    /\ r_text = "Pickup: Alice"
    /\ panel_text = r_text
    /\ panel_x = 0 - 190
    /\ current_x = DISPLAY_WIDTH
    /\ tpc = "loop"

---------------------------------------------------------------------------
\* Further properties of the main.py wiring, checked under SpecOld.

C24_GetMessageNewestWaiting ==
    /\ [](/\ old_messages = << >> => get_message(old_messages) = ""
          /\ old_messages # << >> =>
                get_message(old_messages) =
                   IF old_messages[Len(old_messages)].state = "wait"
                   THEN old_messages[Len(old_messages)].text
                   ELSE "")
    /\ [][\A i \in 1..Len(dtask) :
             (/\ Len(dtask') = Len(dtask)
              /\ dtask'[i] # dtask[i]
              /\ old_messages # << >>) =>
                dtask'[i].last_message =
                   IF old_messages[Len(old_messages)].state = "wait"
                   THEN "Pickup: " \o old_messages[Len(old_messages)].text
                   ELSE ""]_vars

\* The newest message is accepted while an older one still waits, and a
\* display task that showed the newest one has found no message any more.
C24_Witness ==
    /\ Len(old_messages) = 2
    /\ old_messages[1].state = "wait"
    /\ old_messages[2].state = "accept"
    /\ \E i \in 1..Len(dtask) :
          dtask[i].pc = "exiting" /\ dtask[i].last_message = ""

\* C25: once set_text has been called with the empty string (no waiting
\* message remains), the display is dark: it is powered off and no text stays
\* shown.
C25_NoMessageIsDark == current_text = "" => (~powered /\ shown = "")

---------------------------------------------------------------------------
\* Further properties of AsyncQueue, checked under SpecQueue.

\* C26: a completed put wakes exactly one task suspended in get and a
\* completed get wakes exactly one task suspended in put: of the tasks
\* suspended on one side, a single step resumes one when there is one, and
\* never more than one.
C26_WakesExactlyOne ==
    [][\A side \in {Producers, Consumers} :
          LET suspended == {t \in side : pc[t] = "waiting"}
              resumed == {t \in suspended : pc'[t] = "ready"} IN
          /\ Cardinality(resumed) <= 1
          /\ (suspended # {} /\ side = Consumers /\ appended' # appended)
                => resumed # {}
          /\ (suspended # {} /\ side = Producers /\ returned' # returned)
                => resumed # {}]_vars

---------------------------------------------------------------------------
\* Further properties of StateManager; C27 is checked under SpecStoreFair.

\* What the file would load to is the log in memory.
Persisted == load_messages_from_file(file) = messages

\* C27: with a writer task that is scheduled and writes that succeed, the
\* writer writes after the last mutation of the log and its last write holds
\* the final log (trimmed to max_messages): from some point on the file of a
\* running store holds the log in memory for good.
C27_FinalStatePersisted ==
    <>[](rpc = "running" => (Persisted /\ Len(messages) <= max_messages))

\* A mutation arrived during the debounce sleep after a first write of the
\* burst; the writer has written again and the file holds the final log.
C27_Witness ==
    /\ rpc = "running" /\ wpc = "wait" /\ ~messages_dirty
    /\ nWrites = 2
    /\ messages # << >>
    /\ Persisted

\* C28: handling an event of another type than BUTTON_PRESSED, PICKUP,
\* EMERGENCY_CB and EMERGENCY_EVENT, or a BUTTON_PRESSED whose value is neither
\* ACCEPT nor REJECT, changes neither the log nor the dirty signal (nor the
\* file or the writer), raises nothing, and run() is back at the queue for
\* the next event.
C28_OtherEventIgnored ==
    [][(Handling /\ OtherEvent(Head(event_queue))) =>
          /\ messages' = messages
          /\ messages_dirty' = messages_dirty
          /\ file' = file
          /\ wpc' = wpc
          /\ rpc' = "running"]_vars

\* BUTTON_RELEASED was put after a PICKUP that has been handled meanwhile: it
\* is at the head of the queue of the running store with a further event
\* behind it, the log is not empty and the dirty signal is raised.
C28_Witness ==
    /\ rpc = "running"
    /\ Len(event_queue) = 2
    /\ Head(event_queue).type = "BUTTON_RELEASED"
    /\ event_queue[2].type = "PICKUP"
    /\ messages # << >>
    /\ messages_dirty

\* C29: run() handles the events in the order in which they were put: a put
\* queues its event behind all earlier ones and run() takes the oldest; the
\* step that takes an event completes its effect on the log, so the next
\* event is taken after it; and no step of the writer task falls inside the
\* handling of an event.
C29_EventsInArrivalOrder ==
    [][/\ event_queue' # event_queue =>
             \/ \E e \in Events : event_queue' = Append(event_queue, e)
             \/ Handling
       /\ Handling =>
             /\ IF Head(event_queue).type \in
                      {"PICKUP", "EMERGENCY_CB", "EMERGENCY_EVENT"}
                THEN /\ Len(messages') = Len(messages) + 1
                     /\ SubSeq(messages', 1, Len(messages)) = messages
                     /\ messages'[Len(messages')].type = Head(event_queue).type
                ELSE messages' = messages
             /\ wpc' = wpc /\ file' = file /\ nWrites' = nWrites
       /\ (wpc' # wpc \/ file' # file \/ nWrites' # nWrites) =>
             event_queue' = event_queue]_vars

\* Three events were put, PICKUP "Alice" first: its message is in the log
\* that was empty before, the two later events wait in the order of their
\* puts and the writer is in its debounce sleep.
C29_Witness ==
    /\ rpc = "running" /\ wpc = "sleep"
    /\ nCalls = 3
    /\ messages = << pickup_entry("Alice", "02.11.2026 10:00") >>
    /\ event_queue = << [type |-> "PICKUP", value |-> "Bob"],
                        [type |-> "EMERGENCY_CB", value |-> "UNKNOWN_VALUE"] >>

---------------------------------------------------------------------------
\* Further properties of the main.py wiring, checked under SpecOld.

\* C30: the state of a message changes only by an Accept or Reject press
\* handled while that message is the active one (the newest, still waiting):
\* a step that changes the state of a message of the log changes the active
\* message, and to accept or reject.
C30_StateChangedOnlyForActive ==
    [][\A i \in 1..Len(old_messages) :
          (/\ Len(old_messages') = Len(old_messages)
           /\ \A j \in 1..Len(old_messages) :
                 /\ old_messages'[j].text = old_messages[j].text
                 /\ old_messages'[j].timestamp = old_messages[j].timestamp
           /\ old_messages'[i].state # old_messages[i].state) =>
              /\ i = ActiveIndex(old_messages) + 1
              /\ old_messages'[i].state \in {"accept", "reject"}]_vars

\* C31: a message once in the log leaves it only by overflow eviction of the
\* oldest entries: after every step the log still holds, in their order, the
\* messages it held before, except a number of oldest ones that were dropped
\* because the log was over its maximum.
C31_RemovedOnlyByEviction ==
    [][\E k \in 0..Len(old_messages) :
          /\ Len(old_messages') >= Len(old_messages) - k
          /\ \A i \in 1..(Len(old_messages) - k) :
                /\ old_messages'[i].type = old_messages[k + i].type
                /\ old_messages'[i].text = old_messages[k + i].text
                /\ old_messages'[i].timestamp = old_messages[k + i].timestamp
          /\ k > 0 => Len(old_messages') = old_max_messages]_vars

---------------------------------------------------------------------------
\* Further properties of DisplayManager, checked under SpecDisplay.

\* C32: every access to a field both contexts use is made by the holder of
\* the lock: core 0 holds it when it writes the pair (_core1_text,
\* _core1_power_on) and when it reads _core1_running, the thread holds it
\* when it reads the pair and when it writes _core1_running.
C32_SharedStateUnderLock ==
    [][/\ (core1_text' # core1_text \/ core1_power_on' # core1_power_on) =>
             core1_lock = "core0"
       /\ (tpc = "read" /\ tpc' # "read") => core1_lock = "core1"
       /\ core1_running' # core1_running => core1_lock = "core1"
       /\ (dpc = "check" /\ dpc' # "check") => core1_lock = "core0"]_vars

\* C33: the pair (text, power state) the thread reads in an iteration is the
\* pair one call of _update_text_and_power wrote, or the constructor's pair:
\* it is the pair of the last call that has finished its writes, under every
\* interleaving of the two cores.
C33_NoTornRead ==
    [][(tpc = "read" /\ tpc' # "read") =>
          /\ new_text' = last_pair.text
          /\ is_power_on' = last_pair.power_on]_vars

\* The thread has read ("Alice", on) and is at the with statement of its next
\* read while core 0, handling DELETETEXT, holds the lock with the text
\* already emptied and the power state still on.
C33_Witness ==
    /\ new_text = "Alice" /\ is_power_on
    /\ tpc = "loop"
    /\ dpc = "locked_power" /\ core1_lock = "core0"
    /\ core1_text = "" /\ core1_power_on

---------------------------------------------------------------------------
\* Further properties of AsyncQueue; C34 is checked under SpecQueueFair.

\* C34: no wake-up is lost. A task still waiting on its event has nothing to
\* do (the queue is empty for a get, full for a put): whatever completed on
\* the other side has scheduled it. And with a scheduler that runs the tasks
\* it has scheduled, the queue does not stay non-empty with every consumer
\* suspended in get for good, nor non-full with every producer suspended in
\* put for good.
C34_NoLostWakeup ==
    /\ [](\A c \in Consumers : pc[c] = "waiting" => queue = << >>)
    /\ [](\A p \in Producers : pc[p] = "waiting" => full(queue, maxsize))
    /\ []<>(queue = << >> \/ \E c \in Consumers : pc[c] = "idle")
    /\ []<>(full(queue, maxsize) \/ \E p \in Producers : pc[p] = "idle")

\* Both consumers were suspended in get on the empty queue and one put has
\* completed: its item is queued and both consumers are scheduled.
C34_Witness ==
    /\ qstate = "ok"
    /\ appended = << 1 >> /\ queue = << 1 >> /\ get_event
    /\ \A c \in Consumers : pc[c] = "ready"

---------------------------------------------------------------------------
\* Further properties of the main.py wiring, checked under SpecOld.

\* C35: at most one display_message_from_state_task exists at any time:
\* never two that are created and not yet run, or running in their loop.
C35_AtMostOneDisplayTask ==
    Cardinality({i \in 1..Len(dtask) : dtask[i].pc \in {"created", "sleeping"}}) <= 1

\* C36: at most one scroll task is live: every scroll task created and neither
\* returned nor cancelled is the one _scroll_task refers to, so set_text
\* cancelled the previous one before it created the next; and while the
\* current text stays the same the task changes only by its own progress,
\* never by a set_text.
C36_AtMostOneScrollTask ==
    /\ [](nScroll <= 1 /\ nScroll = live_scroll_task)
    /\ [][current_text' = current_text =>
             \/ scroll_task' = scroll_task /\ nScroll' = nScroll
             \/ scroll_task = "created" /\ scroll_task' \in {"done", "scrolling"}]_vars

\* A scroll task has rendered an earlier text, set_text was then called with
\* another text, and the task it created is the only live one.
C36_Witness ==
    /\ scroll_task = "created"
    /\ nScroll = 1
    /\ powered
    /\ shown # ""
    /\ current_text # ""
    /\ shown # current_text

---------------------------------------------------------------------------
\* Further properties of state_manager.py, checked under SpecStore.

\* The n newest entries of a log, oldest first.
NewestEntries(log, n) ==
    IF Len(log) <= n THEN log ELSE SubSeq(log, Len(log) - n + 1, Len(log))

\* C37: every step that changes the message file either leaves it empty (a
\* write that failed after open() truncated the file, so nothing was written)
\* or writes a JSON array of at most max_messages entries that is exactly the
\* max_messages newest entries of the in-memory log at the moment of the write.
C37_WrittenIsNewestEntries ==
    [][file' # file =>
          \/ file'.kind = "blank"
          \/ /\ file'.kind = "json"
             /\ Len(file'.data) <= max_messages
             /\ file'.data = ujson_dumps(NewestEntries(messages, max_messages))]_vars

\* The writer has written a log of six entries: the file holds the five
\* newest, the oldest entry of the earlier run is gone.
C37_Witness ==
    /\ nWrites >= 1
    /\ file.kind = "json"
    /\ Len(file.data) = max_messages
    /\ file.data = ujson_dumps(messages)
    /\ messages[1] = OldLog[2]
    /\ messages[max_messages].type = "EMERGENCY_CB"

---------------------------------------------------------------------------
\* Further properties of display_manager.py, checked under SpecDisplay.

\* The lock is held by a context exactly while that context is inside one of
\* its with blocks (display_manager.py:123-125, 205-207, 273-274): no context
\* arrives at a with statement while it holds the lock, and none leaves a
\* with block (by its end or by dying) with the lock still held.
LockHeldOnlyInWithBlock ==
    /\ core1_lock = "core0" <=> dpc \in {"locked", "locked_power"}
    /\ core1_lock = "core1" <=> tpc \in {"read", "show"}

\* C38: the two contexts never deadlock on the lock: the lock is never
\* acquired by a context that holds it, every acquisition is followed by the
\* release at the end of the with block, and no _update_text_and_power call
\* ends otherwise than by returning to handle_event.
C38_NoDeadlockOnLock ==
    /\ LockHeldOnlyInWithBlock
    /\ dpc # "raised"

=============================================================================
